---- MODULE Spec2Model ----
(***************************************************************************)
(* Model of src/agent.py: the ClawJobsAgent class (credential store,       *)
(* register, browse_gigs, apply_to_gig, check_applications,                *)
(* submit_deliverable, find_matching_gig, do_work, run_once, run_loop)     *)
(* and main().                                                             *)
(*                                                                         *)
(* Strings that the matcher inspects are sequences of one-character        *)
(* strings, so that lower() and the substring test `cap in text` are       *)
(* computed, not assumed.  Python dicts are records with a field `keys`    *)
(* holding the keys that are present, so that d.get(k, default) and the    *)
(* KeyError of d[k] are both modelled.                                     *)
(***************************************************************************)
EXTENDS Integers, Sequences, FiniteSets, TLC

(***************************************************************************)
(* Bounds of the model.                                                    *)
(***************************************************************************)
MaxGigs == 2        \* longest task list a listing response carries
MaxApps == 2        \* longest application list a response carries

(***************************************************************************)
(* Text.                                                                   *)
(***************************************************************************)
\* str.lower() on one character; the alphabet's upper-case letters are W, R, S.
LowerChar(c) ==
    CASE c = "W" -> "w"
      [] c = "R" -> "r"
      [] c = "S" -> "s"
      [] OTHER   -> c

\* str.lower()
Lower(s) == [i \in 1..Len(s) |-> LowerChar(s[i])]

\* Python's `sub in text` on strings
IsSubstring(sub, text) ==
    \E s \in {sub}, t \in {text} :
        \E i \in 1..(Len(t) - Len(s) + 1) : SubSeq(t, i, i + Len(s) - 1) = s

\* str(list_of_str): "['a', 'b']"
RECURSIVE StrItems(_)
StrItems(l) ==
    IF l = << >> THEN << >>
    ELSE <<"'">> \o Head(l) \o <<"'">>
         \o (IF Len(l) > 1 THEN <<",", " ">> ELSE << >>)
         \o StrItems(Tail(l))

StrList(l) == <<"[">> \o StrItems(l) \o <<"]">>

\* dict.get(key, default)
Get(d, key, default) == IF key \in d.keys THEN d[key] ELSE default

\* The words used by CAPABILITIES and by the tasks of the model.
research       == <<"r","e","s","e","a","r","c","h">>
writing        == <<"w","r","i","t","i","n","g">>
summarization  == <<"s","u","m","m","a","r","i","z","a","t","i","o","n">>
data_analysis  == <<"d","a","t","a","-","a","n","a","l","y","s","i","s">>
misc           == <<"m","i","s","c">>
data_cleanup   == <<"d","a","t","a"," ","c","l","e","a","n","u","p">>
Writing_       == <<"W","r","i","t","i","n","g">>
Research_help  == <<"R","e","s","e","a","r","c","h"," ","h","e","l","p">>
Summarization_ == <<"S","u","m","m","a","r","i","z","a","t","i","o","n">>
WRITING        == <<"W","R","i","t","i","n","g">>

\* CAPABILITIES
CAPABILITIES == <<research, writing, summarization, data_analysis>>


\* The capability lists a ClawJobsAgent is constructed with in the matcher's
\* own specification (the constructor takes any list).
CapLists == {CAPABILITIES, <<writing>>, <<WRITING>>, << >>, << << >> >>}

(***************************************************************************)
(* Tasks (gigs) as the listing returns them.  `keys` are the keys present  *)
(* in the dict; a field whose key is absent is never read.                 *)
(***************************************************************************)
AllGigKeys == {"id", "title", "description", "category", "required_capabilities",
               "budget_sats"}

Gig(keys, id, title, description, category, caps) ==
    [keys |-> keys, id |-> id, title |-> title, description |-> description,
     category |-> category, required_capabilities |-> caps]

T1 == Gig(AllGigKeys, 1, data_cleanup, << >>, misc, << >>)
T2 == Gig(AllGigKeys, 2, misc, << >>, Writing_, << >>)
T3 == Gig(AllGigKeys, 3, Research_help, << >>, misc, << >>)
T4 == Gig(AllGigKeys, 2, misc, misc, misc, <<Summarization_, misc>>)
T5 == Gig({"id", "description", "budget_sats"}, 1, << >>, writing, << >>, << >>)
T6 == Gig({}, 0, << >>, << >>, << >>, << >>)
T7 == Gig(AllGigKeys \ {"id"}, 0, misc, << >>, research, << >>)

GigPool == {T1, T2, T3, T4, T5, T6, T7}

\* All sequences over S of length at most n.
SeqsUpTo(S, n) == UNION {[1..k -> S] : k \in 0..n}

GigLists == SeqsUpTo(GigPool, MaxGigs)

\* Optional values: None is the empty sequence, Some(x) a one-element one.
None == << >>
Some(x) == <<x>>

\* bool(dict): an empty dict is falsy
DictTruthy(d) == d.keys # {}

(***************************************************************************)
(* find_matching_gig                                                       *)
(***************************************************************************)
\* lines 177-183: some capability is a substring of the lowered category or
\* of the lowered rendering of required_capabilities
CategoryMatch(gig, caps) ==
    \E g \in {gig} :
    \E category \in {Lower(Get(g, "category", << >>))},
       required_caps \in {StrList(Get(g, "required_capabilities", << >>))} :
        \E i \in 1..Len(caps) :
            \/ IsSubstring(Lower(caps[i]), category)
            \/ IsSubstring(Lower(caps[i]), Lower(required_caps))

\* lines 186-189: some capability is a substring of lower(title + " " + description)
TextMatch(gig, caps) ==
    \E g \in {gig} :
    \E text \in {Get(g, "title", << >>) \o <<" ">> \o Get(g, "description", << >>)} :
        \E i \in 1..Len(caps) : IsSubstring(Lower(caps[i]), Lower(text))

\* the for loop of lines 175-189
RECURSIVE ScanGigs(_, _)
ScanGigs(gigs, caps) ==
    IF gigs = << >> THEN None
    ELSE IF CategoryMatch(Head(gigs), caps) THEN Some(Head(gigs))
    ELSE IF TextMatch(Head(gigs), caps) THEN Some(Head(gigs))
    ELSE ScanGigs(Tail(gigs), caps)

\* find_matching_gig without line 192's fallback to the first task
FindMatchingGigNoFallback(gigs, caps) == ScanGigs(gigs, caps)

FindMatchingGig(gigs, caps) ==
    LET found == ScanGigs(gigs, caps)
    IN  IF found # None THEN found
        ELSE IF gigs # << >> THEN Some(gigs[1]) ELSE None

(***************************************************************************)
(* The remote service's answers.                                           *)
(***************************************************************************)
Statuses == {200, 201, 204, 409, 500}

\* A response: its status code, and whether response.json() and the key
\* lookups on the parsed body succeed.  NetErr is a call that raises in
\* requests itself (no response).
NetErr == [status |-> 0, json |-> FALSE]
Responses == [status : Statuses, json : BOOLEAN] \cup {NetErr}

ApiKeys == {1, 2}          \* tokens the service hands out (0: no key)
Names   == {"n1", "n2"}    \* values AGENT_NAME takes in different processes

\* The bodies that answer r can carry: those of `bodies` when r has the status
\* `ok` and parses, otherwise one that is never read.
Bodies(r, ok, bodies) ==
    IF r.status = ok /\ r.json THEN bodies ELSE {CHOOSE b \in bodies : TRUE}

\* Body of a 201 registration answer; user = 0: data['user']['id'] is missing.
RegBodies == [api_key : ApiKeys, user : {0, 1}]

\* Applications as /applications returns them; gig = 0: no embedded task id.
AppGigIds == {1, 2}
App(keys, status, gig) == [keys |-> keys, status |-> status, gig |-> gig]
AppPool ==
    {App({"status", "gig"}, "accepted", g) : g \in AppGigIds \cup {0}}
    \cup {App({"status", "gig"}, "pending", 1), App({"status", "gig"}, "rejected", 2),
          App({"gig"}, "", 1)}

\* The service holds one application per task (a second apply answers 409).
DistinctGigs(l) ==
    \A i, j \in 1..Len(l) : (i # j /\ l[i].gig # 0) => l[i].gig # l[j].gig

AppLists == {l \in SeqsUpTo(AppPool, MaxApps) : DistinctGigs(l)}

RegCap == 2    \* registration requests a caller of register() gets to issue

(***************************************************************************)
(* State.                                                                  *)
(***************************************************************************)
VARIABLES
    pc,            \* where the process is: "constructed", "browse", "apply",
                   \* "check", "work", "sleep", "exit" ("select", "selected":
                   \* the matcher on its own; "submit", "submitted":
                   \* submit_deliverable on its own)
    mode,          \* "main": main(); "loop": a caller using register/run_loop
    name,          \* self.name
    api_key,       \* self.api_key (0: None)
    user_id,       \* self.user_id (0: None)
    capabilities,  \* self.capabilities
    store,         \* STATE_FILE: None, or Some([api_key, user_id, name])
    gigs,          \* run_once: gigs
    matching_gig,  \* run_once: matching_gig
    apps,          \* run_once: apps
    idx,           \* run_once: position of the for loop over apps
    trace,         \* the calls on record, in order: those issued since
                   \* construction or, under run_loop, by the current cycle
    resp,          \* status of the last response (0: none, or the call raised)
    registered,    \* what the last register() call did
    outcome,       \* how the last run_once ended: "returned", "raised"; "none"
                   \* before the first one and while one is past its listing
    delivered      \* tasks a deliverable request was issued for in an earlier
                   \* cycle of this process

vars == <<pc, mode, name, api_key, user_id, capabilities, store, gigs,
          matching_gig, apps, idx, trace, resp, registered, outcome, delivered>>

identity == <<name, api_key, user_id, capabilities, store, registered>>
locals   == <<gigs, matching_gig, apps, idx>>

\* _headers: the x-api-key header is sent iff self.api_key is truthy
Headers == api_key # 0

Event(op, gig) == [op |-> op, gig |-> gig, auth |-> Headers]

Min(a, b) == IF a < b THEN a ELSE b

\* the tasks a deliverable request of trace t was issued for
Submitted(t) == {t[i].gig : i \in {j \in 1..Len(t) : t[j].op = "submit"}}

(***************************************************************************)
(* The credential store and the remote calls, as functions of the answer.  *)
(* A call's result is [raised, value]: it raised, or it returned value;    *)
(* the two listing calls give the lists they can return as a set.          *)
(***************************************************************************)
Raise  == [raised |-> TRUE, value |-> << >>]
Ret(v) == [raised |-> FALSE, value |-> v]

\* _save_state: the record written to STATE_FILE
SaveState(k, u, n) == Some([api_key |-> k, user_id |-> u, name |-> n])

\* _load_state applied to the file's content: <<api_key, user_id, name>>
LoadState(file, n) ==
    IF file # None THEN <<file[1].api_key, file[1].user_id, file[1].name>>
    ELSE <<0, 0, n>>

\* register without the early return of lines 70-72
AlreadyRegisteredNever(k) == FALSE

\* register, line 70: `if self.api_key`
AlreadyRegistered(k) == k # 0

\* browse_gigs, lines 108-114: whether the call raises, and the lists it can
\* return (response.json() on a 200, [] otherwise)
BrowseGigsRaises(r) == r = NetErr \/ (r.status = 200 /\ ~r.json)
BrowseGigs(r) == IF r.status = 200 /\ r.json THEN GigLists ELSE {<< >>}

\* apply_to_gig without the 409 branch of lines 128-130
ApplyToGigNoConflictBranch(r) ==
    IF r = NetErr THEN Raise
    ELSE IF r.status = 201 THEN (IF r.json THEN Ret("data") ELSE Raise)
    ELSE IF r.json THEN Ret("None") ELSE Raise

\* apply_to_gig, lines 124-133: the application data, or None
ApplyToGig(r) ==
    IF r = NetErr THEN Raise
    ELSE IF r.status = 201 THEN (IF r.json THEN Ret("data") ELSE Raise)
    ELSE IF r.status = 409 THEN Ret("None")
    ELSE IF r.json THEN Ret("None") ELSE Raise

\* check_applications, lines 142-152: whether the call raises, and the lists
\* it can return (data.get('applications', []) on a 200, [] otherwise)
CheckApplicationsRaises(r) == r = NetErr \/ (r.status = 200 /\ ~r.json)
CheckApplications(r) == IF r.status = 200 /\ r.json THEN AppLists ELSE {<< >>}

\* submit_deliverable, lines 166-171
SubmitDeliverable(r) ==
    IF r = NetErr THEN Raise
    ELSE IF r.status \in {200, 201} THEN Ret(TRUE)
    ELSE IF r.json THEN Ret(FALSE) ELSE Raise

(***************************************************************************)
(* Construction and the process's life.                                    *)
(***************************************************************************)
\* The first process: ClawJobsAgent(...) with no STATE_FILE yet.
Init ==
    /\ pc = "constructed"
    /\ mode \in {"main", "loop"}
    /\ name \in Names
    /\ api_key = 0
    /\ user_id = 0
    /\ capabilities = CAPABILITIES
    /\ store = None
    /\ gigs = << >>
    /\ matching_gig = None
    /\ apps = << >>
    /\ idx = 1
    /\ trace = << >>
    /\ resp = 0
    /\ registered = "none"
    /\ outcome = "none"
    /\ delivered = {}

\* A later process: __init__ and _load_state (lines 35-50).
StartProcess ==
    /\ pc = "exit"
    /\ \E m \in {"main", "loop"}, n \in Names :
          /\ mode' = m
          /\ name' = LoadState(store, n)[3]
          /\ api_key' = LoadState(store, n)[1]
          /\ user_id' = LoadState(store, n)[2]
    /\ pc' = "constructed"
    /\ capabilities' = CAPABILITIES
    /\ gigs' = << >>
    /\ matching_gig' = None
    /\ apps' = << >>
    /\ idx' = 1
    /\ trace' = << >>
    /\ resp' = 0
    /\ registered' = "none"
    /\ outcome' = "none"
    /\ delivered' = {}
    /\ UNCHANGED store

\* External interruption of a looping process; its memory is gone.
Kill ==
    /\ mode = "loop"
    /\ pc # "exit"
    /\ pc' = "exit"
    /\ api_key' = 0
    /\ user_id' = 0
    /\ gigs' = << >>
    /\ matching_gig' = None
    /\ apps' = << >>
    /\ idx' = 1
    /\ trace' = << >>
    /\ resp' = 0
    /\ registered' = "none"
    /\ outcome' = "none"
    /\ delivered' = {}
    /\ UNCHANGED <<mode, name, capabilities, store>>

\* STATE_FILE deleted from outside, between two processes.
DeleteStore ==
    /\ pc = "exit"
    /\ store # None
    /\ store' = None
    /\ UNCHANGED <<pc, mode, name, api_key, user_id, capabilities, gigs,
                   matching_gig, apps, idx, trace, resp, registered, outcome,
                   delivered>>

(***************************************************************************)
(* register (lines 68-98): what one call does to the identity.             *)
(***************************************************************************)
Register(r, body) ==
    IF AlreadyRegistered(api_key)
    THEN /\ registered' = "true"
         /\ UNCHANGED <<api_key, user_id, store, resp>>
    ELSE /\ resp' = r.status
         /\ IF r.status = 201 /\ r.json
            THEN /\ api_key' = body.api_key
                 /\ IF body.user # 0
                    THEN /\ user_id' = body.user
                         /\ store' = SaveState(body.api_key, body.user, name)
                         /\ registered' = "true"
                    ELSE /\ registered' = "raised"
                         /\ UNCHANGED <<user_id, store>>
            ELSE /\ registered' = IF r # NetErr /\ r.status # 201 /\ r.json
                                  THEN "false" ELSE "raised"
                 /\ UNCHANGED <<api_key, user_id, store>>

\* the calls on record after one register(): its request, if it issued one
RegisterCalls ==
    IF AlreadyRegistered(api_key) THEN trace
    ELSE Append(trace, Event("register", 0))

\* run_once begins: fresh locals
StartCycle ==
    /\ pc' = "browse"
    /\ gigs' = << >>
    /\ matching_gig' = None
    /\ apps' = << >>
    /\ idx' = 1

\* main going on to run_once whatever register returned
MainProceedsAlways(result) == TRUE

\* main, line 301: `if not agent.register(): return`
MainProceeds(result) == result = "true"

\* main, lines 300-306: register, and run one cycle unless it failed
MainRegister ==
    /\ pc = "constructed"
    /\ mode = "main"
    /\ \E r \in Responses : \E body \in Bodies(r, 201, RegBodies) : Register(r, body)
    /\ trace' = RegisterCalls
    /\ IF MainProceeds(registered') THEN StartCycle ELSE pc' = "exit" /\ UNCHANGED locals
    /\ UNCHANGED <<mode, name, capabilities, outcome, delivered>>

\* a caller of the class calls register() and goes on whatever it did
CallerRegister ==
    /\ pc = "constructed"
    /\ mode = "loop"
    /\ AlreadyRegistered(api_key) \/ Len(trace) < RegCap
    /\ \E r \in Responses : \E body \in Bodies(r, 201, RegBodies) : Register(r, body)
    /\ trace' = RegisterCalls
    /\ UNCHANGED <<pc, mode, name, capabilities, locals, outcome, delivered>>

\* run_loop entered (line 276): the first run_once
RunLoop ==
    /\ pc = "constructed"
    /\ mode = "loop"
    /\ StartCycle
    /\ trace' = << >>
    /\ registered' = "none"
    /\ UNCHANGED <<mode, name, api_key, user_id, capabilities, store, resp,
                   outcome, delivered>>

(***************************************************************************)
(* run_once (lines 238-270) and run_loop (lines 272-283).                  *)
(***************************************************************************)
\* run_loop without the try/except of lines 277-280
EndCycleUncaught(how) ==
    /\ outcome' = how
    /\ pc' = IF mode = "main" \/ how = "raised" THEN "exit" ELSE "sleep"

\* a run_once that starts over when a call of it raised
EndCycleRetry(how) ==
    /\ outcome' = how
    /\ pc' = IF how = "raised" THEN "browse"
             ELSE IF mode = "main" THEN "exit" ELSE "sleep"

\* run_once ends, by returning or by an exception that leaves it.  main ends
\* either way; run_loop catches the exception (line 279) and goes to sleep.
EndCycle(how) ==
    /\ outcome' = how
    /\ pc' = IF mode = "main" THEN "exit" ELSE "sleep"

\* lines 245-249
Browse ==
    /\ pc = "browse"
    /\ \E r \in Responses :
          /\ resp' = r.status
          /\ trace' = Append(trace, Event("browse", 0))
          /\ gigs' \in BrowseGigs(r)
          /\ IF BrowseGigsRaises(r) THEN EndCycle("raised")
             ELSE IF gigs' = << >> THEN EndCycle("returned")
             ELSE pc' = "apply" /\ outcome' = "none"
    /\ UNCHANGED <<mode, identity, matching_gig, apps, idx, delivered>>

\* lines 254-256 read these keys of the selected task
ReadKeys == {"title", "budget_sats", "id"}

\* lines 252-256; gigs is not read after line 252
Apply ==
    /\ pc = "apply"
    /\ \E m \in {FindMatchingGig(gigs, capabilities)} :
          /\ matching_gig' = m
          /\ gigs' = << >>
          /\ IF m = None \/ ~DictTruthy(m[1])
             THEN /\ pc' = "check"
                  /\ UNCHANGED <<trace, resp, outcome>>
             ELSE IF ~(ReadKeys \subseteq m[1].keys)
             THEN /\ EndCycle("raised")
                  /\ UNCHANGED <<trace, resp>>
             ELSE \E r \in Responses :
                     /\ resp' = r.status
                     /\ trace' = Append(trace, Event("apply", m[1].id))
                     /\ IF ApplyToGig(r).raised THEN EndCycle("raised")
                        ELSE pc' = "check" /\ UNCHANGED outcome
    /\ UNCHANGED <<mode, identity, apps, idx, delivered>>

\* lines 259-260; matching_gig is not read after line 256
Check ==
    /\ pc = "check"
    /\ \E r \in Responses :
          /\ resp' = r.status
          /\ trace' = Append(trace, Event("check", 0))
          /\ apps' \in CheckApplications(r)
          /\ IF CheckApplicationsRaises(r) THEN EndCycle("raised")
             ELSE pc' = "work" /\ UNCHANGED outcome
    /\ idx' = 1
    /\ matching_gig' = None
    /\ UNCHANGED <<mode, identity, gigs, delivered>>

\* a loop that stays on the application it has just handled
NextIdxStuck(i) == i

\* line 263: the for loop moves on to the next application
NextIdx(i) == i + 1

\* the loop body without the status test of line 264
SubmitTargetAnyStatus(app) == Get(app, "gig", 0)

\* the loop body with a status test that only leaves out pending applications
SubmitTargetNotPending(app) ==
    IF app.status # "pending" THEN Get(app, "gig", 0) ELSE 0

\* lines 264-267: the task id the loop body submits for, 0 if it submits none
SubmitTarget(app) ==
    IF app.status = "accepted" THEN Get(app, "gig", 0) ELSE 0

\* a loop body that posts the deliverable before the work is done
WorkCallsSubmitFirst(g) == <<Event("submit", g), Event("work", g)>>

\* lines 269-270: do_work, then submit_deliverable for the same task
WorkCalls(g) == <<Event("work", g), Event("submit", g)>>

\* one iteration of the for loop, lines 263-270
Work ==
    /\ pc = "work"
    /\ idx <= Len(apps)
    /\ LET app == apps[idx]
       IN  IF "status" \notin app.keys
           THEN /\ EndCycle("raised")
                /\ UNCHANGED <<idx, trace, resp>>
           ELSE IF SubmitTarget(app) = 0
           THEN /\ idx' = NextIdx(idx)
                /\ UNCHANGED <<pc, outcome, trace, resp>>
           ELSE \E r \in Responses :
                   LET g == SubmitTarget(app)
                   IN  /\ resp' = r.status
                       /\ trace' = trace \o WorkCalls(g)
                       /\ IF SubmitDeliverable(r).raised
                          THEN EndCycle("raised") /\ UNCHANGED idx
                          ELSE idx' = NextIdx(idx) /\ UNCHANGED <<pc, outcome>>
    /\ UNCHANGED <<mode, identity, gigs, matching_gig, apps, delivered>>

\* the for loop is exhausted: run_once returns
Finish ==
    /\ pc = "work"
    /\ idx > Len(apps)
    /\ EndCycle("returned")
    /\ UNCHANGED <<mode, identity, locals, trace, resp, delivered>>

\* lines 282-283 and back to line 278: sleep, then the next run_once
Sleep ==
    /\ pc = "sleep"
    /\ StartCycle
    /\ trace' = << >>
    /\ resp' = 0
    /\ delivered' = delivered \cup Submitted(trace)
    /\ UNCHANGED <<mode, identity, outcome>>

Next ==
    \/ StartProcess \/ Kill \/ DeleteStore
    \/ MainRegister \/ CallerRegister \/ RunLoop
    \/ Browse \/ Apply \/ Check \/ Work \/ Finish \/ Sleep

Spec == Init /\ [][Next]_vars

(***************************************************************************)
(* run_loop left to itself: no external interruption, and every call and   *)
(* every time.sleep returns or raises (weak fairness of the loop's steps). *)
(***************************************************************************)
LoopInit == Init /\ mode = "loop"

LoopStep == Browse \/ Apply \/ Check \/ Work \/ Finish \/ Sleep

LoopNext == CallerRegister \/ RunLoop \/ LoopStep

InLoop == pc \in {"browse", "apply", "check", "work", "sleep"}

LoopSpec == LoopInit /\ [][LoopNext]_vars /\ WF_vars(LoopStep)

(***************************************************************************)
(* find_matching_gig on its own, for every task list and capability list.  *)
(***************************************************************************)
MatcherInit ==
    /\ pc = "select"
    /\ mode = "matcher"
    /\ name = "n1"
    /\ api_key = 0
    /\ user_id = 0
    /\ capabilities \in CapLists
    /\ store = None
    /\ gigs \in GigLists
    /\ matching_gig = None
    /\ apps = << >>
    /\ idx = 1
    /\ trace = << >>
    /\ resp = 0
    /\ registered = "none"
    /\ outcome = "none"
    /\ delivered = {}

Select ==
    /\ pc = "select"
    /\ matching_gig' = FindMatchingGig(gigs, capabilities)
    /\ pc' = "selected"
    /\ UNCHANGED <<mode, identity, gigs, apps, idx, trace, resp, outcome, delivered>>

MatcherSpec == MatcherInit /\ [][Select]_vars

\* an application the loop of lines 263-270 submits for
IsAccepted(app) == "status" \in app.keys /\ app.status = "accepted"
HasTask(app)    == "gig" \in app.keys /\ app.gig # 0

(***************************************************************************)
(* submit_deliverable on its own: one call by an agent of any identity for *)
(* the task of an accepted application, with every answer.  outcome holds  *)
(* what the call did: "true", "false" or "raised".                         *)
(***************************************************************************)
SubmitInit ==
    /\ pc = "submit"
    /\ mode = "submitter"
    /\ name \in Names
    /\ api_key \in {0} \cup ApiKeys
    /\ user_id = 0
    /\ capabilities = CAPABILITIES
    /\ store = None
    /\ gigs = << >>
    /\ matching_gig = None
    /\ apps \in {<<a>> : a \in {b \in AppPool : IsAccepted(b) /\ HasTask(b)}}
    /\ idx = 1
    /\ trace = << >>
    /\ resp = 0
    /\ registered = "none"
    /\ outcome = "none"
    /\ delivered = {}

\* what a call of submit_deliverable answered by r does
SubmitResult(r) ==
    IF SubmitDeliverable(r).raised THEN "raised"
    ELSE IF SubmitDeliverable(r).value THEN "true" ELSE "false"

Submit ==
    /\ pc = "submit"
    /\ \E r \in Responses :
          /\ resp' = r.status
          /\ outcome' = SubmitResult(r)
    /\ trace' = Append(trace, Event("submit", apps[idx].gig))
    /\ pc' = "submitted"
    /\ UNCHANGED <<mode, identity, locals, delivered>>

SubmitSpec == SubmitInit /\ [][Submit]_vars

(***************************************************************************)
(* Properties of find_matching_gig, checked under MatcherSpec.             *)
(***************************************************************************)
HasCategoryMatch == \E i \in 1..Len(gigs) : CategoryMatch(gigs[i], capabilities)
HasTextMatch     == \E i \in 1..Len(gigs) : TextMatch(gigs[i], capabilities)

\* C1: if some task of the list matches a capability on its category or its
\* required_capabilities, the task find_matching_gig returns matches on its
\* category or required_capabilities, whatever stands earlier in the list.
C1_CategoryPreferred ==
    (pc = "selected" /\ HasCategoryMatch)
        => (matching_gig # None /\ CategoryMatch(matching_gig[1], capabilities))

\* C9: find_matching_gig returns none for an empty list and otherwise an
\* element of the list, which is the first task whenever no task matches any
\* capability on category, required_capabilities, title or description.
C9_FallbackAndMembership ==
    pc = "selected" =>
        /\ (gigs = << >> => matching_gig = None)
        /\ (gigs # << >> =>
               /\ matching_gig # None
               /\ \E i \in 1..Len(gigs) : gigs[i] = matching_gig[1])
        /\ ((gigs # << >> /\ ~HasCategoryMatch /\ ~HasTextMatch)
               => matching_gig = Some(gigs[1]))

\* C9's case: a list of two different tasks none of which matches the (non-empty)
\* capabilities, and the first one selected
C9_Witness ==
    /\ pc = "selected"
    /\ Len(gigs) = 2
    /\ gigs[1] # gigs[2]
    /\ capabilities # << >>
    /\ ~HasCategoryMatch /\ ~HasTextMatch
    /\ matching_gig = Some(gigs[1])

(***************************************************************************)
(* Properties of the cycle and of the identity, checked under Spec.        *)
(***************************************************************************)
\* run_once is over (main has ended, or run_loop sleeps)
CycleOver == pc \in {"exit", "sleep"}

\* the call issued last is an `op` call
LastCall(op) == trace # << >> /\ trace[Len(trace)].op = op

\* the task ids of the deliverable requests of the cycle, in order
Subs == LET s == SelectSeq(trace, LAMBDA e : e.op = "submit")
        IN  [i \in 1..Len(s) |-> s[i].gig]

\* the task ids of the accepted applications of l that embed one, in order
RECURSIVE AcceptedTasks(_)
AcceptedTasks(l) ==
    IF l = << >> THEN << >>
    ELSE (IF IsAccepted(Head(l)) /\ HasTask(Head(l)) THEN <<Head(l).gig>> ELSE << >>)
         \o AcceptedTasks(Tail(l))

NumAccepted(l) == Cardinality({i \in 1..Len(l) : IsAccepted(l[i])})

IsPrefix(a, b) == Len(a) <= Len(b) /\ SubSeq(b, 1, Len(a)) = a

\* C2 as stated: when run_once has returned, it has issued as many deliverable
\* requests as the application list has accepted applications.
C2_ExactlyNDeliverables ==
    (CycleOver /\ outcome = "returned") => Len(Subs) = NumAccepted(apps)

\* C2 amended: the deliverable requests of a cycle are, in list order, one for
\* each accepted application that embeds a task id: those of the applications
\* handled so far while the loop runs, all of them when run_once returns, and a
\* prefix of them when an exception ends the cycle.
C2_OnePerAcceptedTask ==
    /\ pc = "work" => Subs = AcceptedTasks(SubSeq(apps, 1, idx - 1))
    /\ (CycleOver /\ outcome = "returned") => Subs = AcceptedTasks(apps)
    /\ (CycleOver /\ outcome = "raised") => IsPrefix(Subs, AcceptedTasks(apps))

\* C2's case: run_once returned after a list of two applications of which one is
\* accepted with a task and got its deliverable, the other got none
C2_Witness ==
    /\ CycleOver /\ outcome = "returned"
    /\ Len(apps) = 2
    /\ NumAccepted(apps) = 1
    /\ Len(Subs) = 1

\* C3: after a task listing that answered with a non-success status the cycle
\* goes on, with no tasks, to the listing of the applications.
C3_ListingFailureGoesOn ==
    (LastCall("browse") /\ resp \notin {0, 200}) => (pc = "check" /\ gigs = << >>)

\* C4 as stated: no deliverable request is issued for a task that got one in an
\* earlier cycle.
C4_OncePerApplication ==
    \A i \in 1..Len(trace) : trace[i].op = "submit" => trace[i].gig \notin delivered

\* C4 amended: within one cycle a task gets at most as many deliverable
\* requests as the cycle's application list has accepted applications for it,
\* that is at most one; earlier cycles are not remembered.
C4_OncePerCycle ==
    \A g \in AppGigIds :
        Cardinality({i \in 1..Len(trace) : trace[i].op = "submit" /\ trace[i].gig = g})
            <= Cardinality({i \in 1..Len(apps) : IsAccepted(apps[i]) /\ apps[i].gig = g})

\* C4's case: a later cycle of run_loop submits, once, for a task that an
\* earlier cycle submitted for
C4_Witness ==
    /\ mode = "loop"
    /\ \E g \in delivered :
          Cardinality({i \in 1..Len(trace) : trace[i].op = "submit" /\ trace[i].gig = g}) = 1

\* C5: after an apply call answered 409 no exception has ended the cycle:
\* run_once stands before the listing of the applications, as after a 201.
C5_ConflictAbsorbed ==
    (LastCall("apply") /\ resp = 409)
        => (pc = "check" /\ outcome = "none" /\ apps = << >> /\ idx = 1)

\* C5's case: the apply call got 409 and the cycle is about to list applications
C5_Witness == LastCall("apply") /\ resp = 409 /\ pc = "check"

IsRegister(e) == e.op = "register"
RegCalls(t) == Len(SelectSeq(t, IsRegister))

\* C6: while the credential store holds an identity and is not deleted from
\* outside, no step issues a registration request or changes the store, and
\* the api_key, user_id and name of a running process are the stored ones.
C6_RegistrationIdempotent ==
    [][(store # None /\ store' # None) =>
          /\ store' = store
          /\ RegCalls(trace') <= RegCalls(trace)
          /\ pc' # "exit" =>
                <<api_key', user_id', name'>>
                    = <<store[1].api_key, store[1].user_id, store[1].name>>]_vars

\* C6's case: a process that found the store populated has called register(),
\* which returned true without a request
C6_Witness ==
    /\ pc = "constructed"
    /\ store # None
    /\ registered = "true"
    /\ trace = << >>

\* C7: in main, when register has not succeeded, the process has ended, the
\* registration request is the only request it issued, the credential store
\* is not written, and after a non-201 answer there is no api_key or user_id.
C7_RegistrationFailureEndsRun ==
    (mode = "main" /\ registered \in {"false", "raised"}) =>
        /\ pc = "exit"
        /\ Len(trace) = 1 /\ trace[1].op = "register"
        /\ store = None
        /\ resp # 201 => (api_key = 0 /\ user_id = 0)

\* C7's case: main has ended after register returned false on a 500 answer
C7_Witness ==
    /\ mode = "main" /\ pc = "exit"
    /\ registered = "false" /\ resp = 500
    /\ api_key = 0 /\ store = None

\* C10: every task-listing, apply, application-listing and deliverable
\* request is issued with an api_key.
C10_RequestsCarryIdentity ==
    \A i \in 1..Len(trace) :
        trace[i].op \in {"browse", "apply", "check", "submit"} => trace[i].auth

(***************************************************************************)
(* Properties of run_loop, checked under LoopSpec.                         *)
(***************************************************************************)
\* C8: run_loop never leaves its loop, whatever exception ends a cycle, and
\* once it is entered a cycle ends in the sleep of line 283 infinitely often
\* and a new cycle starts infinitely often.
C8_LoopResilience ==
    /\ [][InLoop => InLoop']_vars
    /\ \/ <>[](pc = "constructed")
       \/ ([]<>(pc = "sleep") /\ []<>(pc = "browse"))

\* C8's case: a cycle starts after the cycle before it ended in an exception
C8_Witness == pc = "browse" /\ trace = << >> /\ outcome = "raised"

(***************************************************************************)
(* Requests of one cycle: how many, in which order, for which tasks.       *)
(***************************************************************************)
\* the number of `op` calls on record
Count(op) == Cardinality({i \in 1..Len(trace) : trace[i].op = op})

\* C11: the calls on record hold at most one task-listing request, one apply
\* request, one application-listing request and, per accepted application of
\* the list, one deliverable request, whatever the answers were.
C11_NoRetryInCycle ==
    /\ Count("browse") <= 1
    /\ Count("apply") <= 1
    /\ Count("check") <= 1
    /\ Count("submit") <= NumAccepted(apps)
    /\ pc = "work" => Count("submit") <= NumAccepted(SubSeq(apps, 1, idx - 1))

\* C11's case: the cycle is over after its only deliverable request failed
\* with a 500 answer, which was not tried again
C11_Witness ==
    /\ CycleOver
    /\ LastCall("submit") /\ resp = 500
    /\ Count("submit") = 1 /\ Count("browse") = 1 /\ Count("check") = 1

\* the place of a call in the cycle of lines 245-270 (0: before the cycle)
Rank(op) ==
    CASE op = "browse" -> 1
      [] op = "apply"  -> 2
      [] op = "check"  -> 3
      [] op \in {"work", "submit"} -> 4
      [] OTHER -> 0

\* C12: the calls on record stand in the order task listing, apply,
\* application listing, then work and submission; every deliverable request
\* directly follows the work on its task, no call follows the task listing
\* without it, and no work or deliverable request is there without the
\* application listing.
C12_CycleOrdering ==
    /\ \A i, j \in 1..Len(trace) :
          i < j => Rank(trace[i].op) <= Rank(trace[j].op)
    /\ \A i \in 1..Len(trace) :
          /\ trace[i].op = "submit" =>
                (i > 1 /\ trace[i - 1].op = "work" /\ trace[i - 1].gig = trace[i].gig)
          /\ Rank(trace[i].op) > 1 => Count("browse") = 1
          /\ Rank(trace[i].op) = 4 => Count("check") = 1

\* C12's case: a cycle that issued every kind of call, two deliverables among
\* them
C12_Witness ==
    /\ CycleOver
    /\ Count("browse") = 1 /\ Count("apply") = 1 /\ Count("check") = 1
    /\ Count("work") = 2 /\ Count("submit") = 2

\* C13: after a deliverable request that got a non-success answer no
\* exception has ended the cycle, and when the cycle is over every accepted
\* application with a task has got its deliverable request.
C13_SubmitFailureIsSoft ==
    (LastCall("submit") /\ resp \in {409, 500}) =>
        /\ outcome # "raised"
        /\ CycleOver => Subs = AcceptedTasks(apps)

\* C16: every deliverable request on record carries a task id, and it is the
\* id embedded in an application that the application list of the cycle
\* holds with status accepted.
C16_OnlyAcceptedWork ==
    \A i \in 1..Len(trace) :
        trace[i].op = "submit" =>
            /\ trace[i].gig # 0
            /\ \E k \in 1..Len(apps) :
                  IsAccepted(apps[k]) /\ HasTask(apps[k]) /\ apps[k].gig = trace[i].gig

\* C16's case: run_once returned after a list with a rejected and an accepted
\* application, and the one deliverable request is for the accepted one
C16_Witness ==
    /\ CycleOver /\ outcome = "returned"
    /\ Len(apps) = 2
    /\ \E k \in 1..2 : apps[k].status = "rejected" /\ HasTask(apps[k])
    /\ Count("submit") = 1

(***************************************************************************)
(* Who writes the credential store, checked under Spec.                    *)
(***************************************************************************)
\* a step of the running process (not its start, not its interruption)
ProcessStep == pc # "exit" /\ ~(mode = "loop" /\ pc' = "exit")

\* a step of run_once or run_loop: run_loop entered, or a step of a cycle
CycleStep ==
    /\ ProcessStep
    /\ \/ pc \in {"browse", "apply", "check", "work", "sleep"}
       \/ pc = "constructed" /\ mode = "loop" /\ pc' = "browse"

\* C15: a step writes the credential store only as a register() call of a
\* process without api_key that got a 201 answer, and it writes the identity
\* the process then holds; a process that holds an api_key keeps it and leaves
\* the store alone, so that it writes at most once; and no step of run_once
\* or run_loop changes the store, api_key, user_id or name.
C15_StoreWrittenOnce ==
    [][/\ (store' # store /\ store' # None) =>
             /\ pc = "constructed" /\ api_key = 0
             /\ resp' = 201 /\ registered' = "true"
             /\ store' = Some([api_key |-> api_key', user_id |-> user_id',
                               name |-> name'])
       /\ (ProcessStep /\ api_key # 0) => (api_key' = api_key /\ store' = store)
       /\ ProcessStep => (store' # None \/ store = None)
       /\ CycleStep => UNCHANGED <<store, api_key, user_id, name>>]_vars

\* C15's case: main registered, wrote the store, and ran a whole cycle with a
\* deliverable request, the store still holding the identity registered
C15_Witness ==
    /\ mode = "main" /\ pc = "exit" /\ outcome = "returned"
    /\ Count("register") = 1 /\ Count("submit") = 1
    /\ store = Some([api_key |-> api_key, user_id |-> user_id, name |-> name])

\* the ids of the tasks of list l
GigIds(l) == {l[k].id : k \in {j \in 1..Len(l) : "id" \in l[j].keys}}

\* C17: the step of run_once that follows a non-empty task listing issues
\* exactly one apply request, for a task of that listing, and a cycle whose
\* listing was empty (it never got to that step) has no apply request.
C17_OneApplyToListedTask ==
    /\ [][(pc = "apply" /\ ProcessStep) =>
             /\ gigs # << >>
             /\ trace' = Append(trace, trace'[Len(trace')])
             /\ trace'[Len(trace')].op = "apply"
             /\ trace'[Len(trace')].gig \in GigIds(gigs)]_vars
    /\ [](pc \in {"browse", "apply"} => Count("apply") = 0)

(***************************************************************************)
(* Properties of submit_deliverable, checked under SubmitSpec.             *)
(***************************************************************************)
\* C14: submit_deliverable returns true when the answer's status is a 2xx one
\* and false when it is any other status.
C14_SuccessIffTwoXX ==
    pc = "submitted" =>
        /\ resp \in 200..299 => outcome = "true"
        /\ (resp # 0 /\ resp \notin 200..299) => outcome = "false"

====
